---- MODULE Spec2Model ----
(***************************************************************************)
(* Model of the pty session manager of src/src/main.ts: the id counter,    *)
(* the ptyMap registry, the terminals spawned by createPty with their      *)
(* 'data' and 'exit' listeners, the IPC dispatcher and the window cleanup. *)
(*                                                                         *)
(* A terminal (pty.Terminal) is identified by its spawn order.  The        *)
(* listeners registered at main.ts:271 and main.ts:279 are closures over   *)
(* ptyId, sender and term; they stay registered for the terminal's whole   *)
(* life, so the model keeps those three values in the terminal's record.   *)
(* Strings are sequences of character codes.                               *)
(*                                                                         *)
(* The tip viewer of src/unnamed/part_000 (a web component of the renderer *)
(* process) is modelled next to it: the tips read by loadTipFile, the      *)
(* current tip index and the handlers of the next and previous buttons.    *)
(***************************************************************************)
EXTENDS Integers, Sequences, FiniteSets, TLC

\* ---------------------------------------------------------------- bounds
MaxCreate == 2
MaxData == 2
MaxTips == 3
MaxTipCounter == 4

\* ---------------------------------------------------------------- inputs
Windows == {1, 2}
IdRange == 1..MaxCreate
InputData == { <<108, 115, 13>> }
Sizes == { <<80, 24>> }

VARIABLES
  ptyCounter,   \* main.ts:251
  ptyMap,       \* main.ts:257   id -> [windowId, ptyTerm]
  term,         \* the terminals returned by pty.spawn, in spawn order
  windows,      \* the browser windows that have not been closed
  sent,         \* per window and message id, the messages passed to sender.send
  lastOp,       \* the handler that ran last, with its arguments
  logged,       \* the WARNING lines written by the handler that ran last
  raised,       \* the handler that ran last threw
  calls,        \* the terminal methods called by the handler that ran last
  config,       \* main.ts:38
  themes,       \* main.ts:37
  fs,           \* the configuration file and the themes directory on disk
  pc,           \* "start" before main() runs, then "ready" or "crashed"
  ipcLog,       \* the message logged as "Main IPC incoming" by the handler that ran last
  reply,        \* the reply handleAsyncIpc passed to event.sender.send, with its window
  tipData,      \* part_000:60      the tips, tipData[k + 1] is the tip of index k
  tipCounter,   \* part_000:108     getConfig(GENERAL_CONFIG).tipCounter
  _tipIndex,    \* part_000:83
  shadow,       \* the shadow root is attached and the button listeners are registered
  connected,    \* the element is in the document
  content,      \* innerHTML of the ID_CONTENT div
  tipTrail      \* the latest clicks since connectedCallback, each [op, from, to]

vars == <<ptyCounter, ptyMap, term, windows, sent, lastOp, logged, raised, calls,
          config, themes, fs, pc, ipcLog, reply,
          tipData, tipCounter, _tipIndex, shadow, connected, content, tipTrail>>

\* what only main() writes
startup == <<themes, fs, pc>>

\* the state of the tip viewer
tipViewer == <<tipData, tipCounter, _tipIndex, shadow, connected, content, tipTrail>>

\* the state of the main process, which no handler of the tip viewer touches
mainProcess == <<ptyCounter, ptyMap, term, windows, sent, logged, raised, calls,
                 config, themes, fs, pc, ipcLog, reply>>

\* ---------------------------------------------------------------- logging
AllowedChars ==
  {32, 47, 123, 125, 44, 46, 58, 59, 60, 62, 33, 64, 35, 36, 37, 94, 38, 42,
   40, 41, 43, 61, 95, 39, 34, 45} \cup (97..122) \cup (65..90) \cup (48..57)

HexDigit(d) == IF d < 10 THEN 48 + d ELSE 97 + (d - 10)

RECURSIVE ToHex(_)
ToHex(c) == IF c < 16 THEN <<HexDigit(c)>> ELSE ToHex(c \div 16) \o <<HexDigit(c % 16)>>

mapBadChar(c) ==
  CASE c = 8  -> <<92, 98>>
    [] c = 12 -> <<92, 102>>
    [] c = 13 -> <<92, 114>>
    [] c = 11 -> <<92, 118>>
    [] OTHER  -> <<92, 120>> \o (IF c < 16 THEN <<48>> ELSE <<>>) \o ToHex(c)

RECURSIVE substituteBadChars(_)
substituteBadChars(data) ==
  IF data = <<>> THEN <<>>
  ELSE (IF Head(data) \in AllowedChars THEN <<Head(data)>> ELSE mapBadChar(Head(data)))
       \o substituteBadChars(Tail(data))

\* ---------------------------------------------------------------- messages
Msg(t, i, d) == [type |-> t, id |-> i, data |-> d]

\* variant: the escaped text of the log line is sent instead of the chunk
PtyOutputData_Logged(data) == substituteBadChars(data)

\* the data field of the PtyOutput message built at main.ts:275
PtyOutputData(data) == data

PtyOutput(ptyId, data) == Msg("PTY_OUTPUT", ptyId, PtyOutputData(data))
PtyCloseMsg(ptyId) == Msg("PTY_CLOSE", ptyId, <<>>)
CreatedPty(id) == Msg("PTY_CREATED", id, <<>>)

\* sender.send(CHANNEL_NAME, m) on the webContents of window w.  The channel
\* is recorded as one FIFO stream per message id: the order of the messages
\* of one session is kept, the order between sessions is not recorded.
Stream(w, id) == IF id \in DOMAIN sent[w] THEN sent[w][id] ELSE <<>>

Send(w, m) ==
  [sent EXCEPT ![w] = [x \in DOMAIN @ \cup {m.id} |->
                         IF x = m.id THEN Append(Stream(w, m.id), m) ELSE @[x]]]

\* ---------------------------------------------------------------- state
\* op: the handler; window: the sender or the closed window; id: the id of
\* the request; t: the terminal whose event fired (0: does not apply)
Op(o, w, i, t) == [op |-> o, window |-> w, id |-> i, t |-> t]

\* ---------------------------------------------------------------- files
\* A theme.json is unreadable (or <item>/theme.json does not exist), is not
\* JSON, holds the JSON value null, or holds an object whose name field is a
\* string (name is its text), a number or missing.
ThemeFile(kind, nameType, name) == [kind |-> kind, nameType |-> nameType, name |-> name]

ThemeFiles ==
  { ThemeFile("unreadable", "undefined", <<>>),
    ThemeFile("malformed", "undefined", <<>>),
    ThemeFile("null", "undefined", <<>>),
    ThemeFile("object", "undefined", <<>>),
    ThemeFile("object", "number", <<>>),
    ThemeFile("object", "string", <<>>),
    ThemeFile("object", "string", <<68>>) }

\* the themes directory: missing, or the items readdirSync lists with the
\* theme.json of each
ThemeDirs ==
  { [exists |-> FALSE, items |-> <<>>] }
  \cup { [exists |-> TRUE, items |-> <<>>] }
  \cup { [exists |-> TRUE, items |-> << [item |-> i, file |-> f] >>] :
           i \in {"dark", "default"}, f \in ThemeFiles }
  \cup { [exists |-> TRUE, items |-> << [item |-> "dark", file |-> f],
                                         [item |-> "default", file |-> g] >>] :
           f \in ThemeFiles, g \in ThemeFiles }

\* the configuration file: absent, or JSON with the two fields main() reads
ConfigFiles ==
  [exists : {TRUE}, theme : {"dark", "default", "undefined"},
   blinkingCursor : {"true", "false", "undefined", "string"}]
  \cup { [exists |-> FALSE, theme |-> "undefined", blinkingCursor |-> "undefined"] }

THEME_CONFIG == "theme.json"
THEMES_DIRECTORY == "themes"

\* readConfigurationFile; themePath <<>> stands for a missing field
readConfigurationFile(file) ==
  IF file.exists
  THEN [theme |-> file.theme, blinkingCursor |-> file.blinkingCursor, themePath |-> <<>>]
  ELSE [theme |-> "undefined", blinkingCursor |-> "undefined", themePath |-> <<>>]

\* validateThemeInfo, applied to a parsed object
validateThemeInfo(themeinfo) == themeinfo.nameType = "string" /\ themeinfo.name # <<>>

\* the body of the forEach callback of scanThemes: readFileSync or JSON.parse
\* throw for an unreadable or malformed file, themeinfo.name throws for null;
\* the catch logs a warning and the entry is skipped
ThemeAccepted(file) == file.kind = "object" /\ validateThemeInfo(file)

RECURSIVE ScanItems(_)
ScanItems(items) ==
  IF items = <<>> THEN <<>>
  ELSE (IF ThemeAccepted(Head(items).file)
        THEN << [item |-> Head(items).item, theme |-> Head(items).file] >>
        ELSE <<>>)
       \o ScanItems(Tail(items))

\* scanThemes: the map as its entries in insertion order; a missing
\* directory leaves the function without a return value (undefined)
scanThemes(dir) ==
  IF dir.exists
  THEN [defined |-> TRUE, entries |-> ScanItems(dir.items)]
  ELSE [defined |-> FALSE, entries |-> <<>>]

\* themes.get(name) # undefined
ThemesHas(th, name) == \E i \in DOMAIN th.entries : th.entries[i].item = name

\* main(), main.ts:40-49: the state it leaves.  themes.get on the undefined
\* result of scanThemes throws and main() dies before app.on('ready').
Startup(f) ==
  LET c0 == readConfigurationFile(f.configFile)
      c1 == [c0 EXCEPT !.blinkingCursor =
                         IF c0.blinkingCursor \in {"true", "false"} THEN @ ELSE "false"]
      th == scanThemes(f.themesdir)
  IN IF ~th.defined
     THEN [pc |-> "crashed", config |-> c1, themes |-> th]
     ELSE [pc |-> "ready",
           config |-> IF ThemesHas(th, c1.theme) THEN c1 ELSE [c1 EXCEPT !.theme = "default"],
           themes |-> th]

\* the installation the session manager is explored on
InstalledFs ==
  [configFile |-> [exists |-> TRUE, theme |-> "dark", blinkingCursor |-> "undefined"],
   themesdir |-> [exists |-> TRUE,
                  items |-> << [item |-> "dark", file |-> ThemeFile("object", "string", <<68>>)],
                               [item |-> "default", file |-> ThemeFile("malformed", "undefined", <<>>)] >>]]

NoMsg == Msg("none", 0, <<>>)
NoReply == [to |-> 0, msg |-> NoMsg]
Reply(w, m) == [to |-> w, msg |-> m]

\* ---------------------------------------------------------------- tips
\* the k-th <article> of tips.html, the text around the articles, and what
\* an index outside tipData reads
Article(k) == <<"article", k>>
Filler == <<"text", 0>>
Undefined == <<"undefined", 0>>

\* tips.html with n articles
TipFiles == { [k \in 1..n |-> Article(k)] : n \in 1..MaxTips }

\* tipHtml.split(/<article>([^]*?)<\/article>/m): the text before, between
\* and after the articles with the captured articles in between
SplitArticles(file) ==
  [i \in 1..(2 * Len(file) + 1) |-> IF i % 2 = 0 THEN file[i \div 2] ELSE Filler]

\* loadTipFile: parts.filter((p, i) => i % 2 === 1), i counted from 0
loadTipFile(file) ==
  LET parts == SplitArticles(file)
      odd == { i \in DOMAIN parts : (i - 1) % 2 = 1 }
  IN [k \in 1..Cardinality(odd) |-> parts[2 * k]]

\* the tipCounter values of the configuration
TipCounters == (-1)..MaxTipCounter

\* the % of JavaScript for a positive divisor: the sign of the dividend
JsRem(a, b) == IF a >= 0 THEN a % b ELSE 0 - ((0 - a) % b)

\* the fields of a TipViewer after its constructor and setConfigDatabase
TipViewerConstructed(data, counter) ==
  /\ tipData = data
  /\ tipCounter = counter
  /\ _tipIndex = 0
  /\ shadow = FALSE
  /\ connected = FALSE
  /\ content = <<>>
  /\ tipTrail = <<>>

\* the state when main() has run on InstalledFs and the app is ready
Init ==
  /\ ptyCounter = 0
  /\ ptyMap = <<>>
  /\ term = <<>>
  /\ windows = Windows
  /\ sent = [w \in Windows |-> <<>>]
  /\ lastOp = Op("init", 0, 0, 0)
  /\ logged = 0
  /\ raised = FALSE
  /\ calls = <<>>
  /\ fs = InstalledFs
  /\ pc = Startup(fs).pc
  /\ config = Startup(fs).config
  /\ themes = Startup(fs).themes
  /\ ipcLog = NoMsg
  /\ reply = NoReply
  /\ TipViewerConstructed(loadTipFile(<<Article(1)>>), 0)

Has(id) == id \in DOMAIN ptyMap

MapSet(m, k, v) == [x \in DOMAIN m \cup {k} |-> IF x = k THEN v ELSE m[x]]
MapDelete(m, k) == [x \in DOMAIN m \ {k} |-> m[x]]

Destroy(tm, t) == [tm EXCEPT ![t].destroyed = @ + 1]

TotalData == LET RECURSIVE Sum(_)
                 Sum(n) == IF n = 0 THEN 0 ELSE Len(term[n].emitted) + Sum(n - 1)
             IN Sum(Len(term))

\* variant: the increment is missing
NextPtyCounter_Stuck(c) == c

\* variant: the counter wraps back to the first id
NextPtyCounter_Wrap(c) == IF c >= 1 THEN 1 ELSE c + 1

\* variant: the counter is incremented twice
NextPtyCounter_Skip(c) == c + 2

\* ptyCounter++ at main.ts:267
NextPtyCounter(c) == c + 1

\* ---------------------------------------------------------------- create
\* pty.spawn either returns a terminal or throws (spawnOk = FALSE); the throw
\* leaves createPty at main.ts:260, before the counter is touched, and passes
\* through handlePtyCreate and handleAsyncIpc, neither of which catches it.
\* variant: the listeners send to the main window instead of the sender
NewTerm_MainWindow(ptyId, w) ==
  [ptyId |-> ptyId, sender |-> 1, destroyed |-> 0, exited |-> FALSE,
   emitted |-> <<>>, paths |-> {}]

NewTerm(ptyId, w) ==
  [ptyId |-> ptyId, sender |-> w, destroyed |-> 0, exited |-> FALSE,
   emitted |-> <<>>, paths |-> {}]

\* variant: the spawn failure is swallowed and an id is replied all the same
handlePtyCreate_ReplyOnFailure(w, spawnOk) ==
  /\ lastOp' = Op(IF spawnOk THEN "create" ELSE "createSpawnFailed", w, 0, 0)
  /\ logged' = 0
  /\ calls' = <<>>
  /\ IF spawnOk
     THEN /\ ptyCounter' = NextPtyCounter(ptyCounter)
          /\ term' = Append(term, NewTerm(ptyCounter', w))
          /\ ptyMap' = MapSet(ptyMap, ptyCounter', [windowId |-> w, ptyTerm |-> Len(term) + 1])
          /\ sent' = Send(w, CreatedPty(ptyCounter'))
          /\ reply' = Reply(w, CreatedPty(ptyCounter'))
          /\ raised' = FALSE
     ELSE /\ ptyCounter' = NextPtyCounter(ptyCounter)
          /\ sent' = Send(w, CreatedPty(ptyCounter'))
          /\ reply' = Reply(w, CreatedPty(ptyCounter'))
          /\ raised' = FALSE
          /\ ptyCounter < MaxCreate
          /\ UNCHANGED <<ptyMap, term>>
  /\ UNCHANGED <<windows, config, startup, tipViewer>>

\* variant: the id is not replied
handlePtyCreate_NoReply(w, spawnOk) ==
  /\ lastOp' = Op(IF spawnOk THEN "create" ELSE "createSpawnFailed", w, 0, 0)
  /\ logged' = 0
  /\ calls' = <<>>
  /\ reply' = NoReply
  /\ IF spawnOk
     THEN /\ ptyCounter' = NextPtyCounter(ptyCounter)
          /\ term' = Append(term, NewTerm(ptyCounter', w))
          /\ ptyMap' = MapSet(ptyMap, ptyCounter', [windowId |-> w, ptyTerm |-> Len(term) + 1])
          /\ raised' = FALSE
          /\ UNCHANGED sent
     ELSE /\ raised' = TRUE
          /\ UNCHANGED <<ptyCounter, ptyMap, term, sent>>
  /\ UNCHANGED <<windows, config, startup, tipViewer>>

\* variant: the counter is incremented before pty.spawn is called
handlePtyCreate_CounterFirst(w, spawnOk) ==
  /\ lastOp' = Op(IF spawnOk THEN "create" ELSE "createSpawnFailed", w, 0, 0)
  /\ logged' = 0
  /\ calls' = <<>>
  /\ ptyCounter < MaxCreate + 1
  /\ ptyCounter' = NextPtyCounter(ptyCounter)
  /\ IF spawnOk
     THEN /\ term' = Append(term, NewTerm(ptyCounter', w))
          /\ ptyMap' = MapSet(ptyMap, ptyCounter', [windowId |-> w, ptyTerm |-> Len(term) + 1])
          /\ sent' = Send(w, CreatedPty(ptyCounter'))
          /\ reply' = Reply(w, CreatedPty(ptyCounter'))
          /\ raised' = FALSE
     ELSE /\ raised' = TRUE
          /\ reply' = NoReply
          /\ UNCHANGED <<ptyMap, term, sent>>
  /\ UNCHANGED <<windows, config, startup, tipViewer>>

\* handleAsyncIpc, case PTY_CREATE: handlePtyCreate, createPty and the reply
handlePtyCreate(w, spawnOk) ==
  /\ lastOp' = Op(IF spawnOk THEN "create" ELSE "createSpawnFailed", w, 0, 0)
  /\ logged' = 0
  /\ calls' = <<>>
  /\ IF spawnOk
     THEN /\ ptyCounter' = NextPtyCounter(ptyCounter)
          /\ term' = Append(term, NewTerm(ptyCounter', w))
          /\ ptyMap' = MapSet(ptyMap, ptyCounter', [windowId |-> w, ptyTerm |-> Len(term) + 1])
          /\ sent' = Send(w, CreatedPty(ptyCounter'))
          /\ reply' = Reply(w, CreatedPty(ptyCounter'))
          /\ raised' = FALSE
     ELSE /\ raised' = TRUE
          /\ reply' = NoReply
          /\ UNCHANGED <<ptyCounter, ptyMap, term, sent>>
  /\ UNCHANGED <<windows, config, startup, tipViewer>>

\* ---------------------------------------------------------------- input, resize
\* variant: the undefined check is missing, so an absent id throws a TypeError
handlePtyInput_NoCheck(id, data) ==
  /\ lastOp' = Op("input", 0, id, 0)
  /\ IF ~Has(id)
     THEN /\ logged' = 0
          /\ raised' = TRUE
          /\ calls' = <<>>
     ELSE /\ logged' = 0
          /\ raised' = FALSE
          /\ calls' = << [t |-> ptyMap[id].ptyTerm, method |-> "write", arg |-> data] >>
  /\ reply' = NoReply
  /\ UNCHANGED <<ptyCounter, ptyMap, term, windows, sent, config, startup, tipViewer>>

\* handleAsyncIpc, case PTY_INPUT
handlePtyInput(id, data) ==
  /\ lastOp' = Op("input", 0, id, 0)
  /\ raised' = FALSE
  /\ IF ~Has(id)
     THEN /\ logged' = 1
          /\ calls' = <<>>
     ELSE /\ logged' = 0
          /\ calls' = << [t |-> ptyMap[id].ptyTerm, method |-> "write", arg |-> data] >>
  /\ reply' = NoReply
  /\ UNCHANGED <<ptyCounter, ptyMap, term, windows, sent, config, startup, tipViewer>>

\* variant: the body of handlePtyClose pasted into handlePtyResize
handlePtyResize_PastedClose(id, size) ==
  /\ lastOp' = Op("resize", 0, id, 0)
  /\ raised' = FALSE
  /\ reply' = NoReply
  /\ IF ~Has(id)
     THEN /\ logged' = 1
          /\ calls' = <<>>
          /\ UNCHANGED <<ptyMap, term>>
     ELSE /\ logged' = 0
          /\ calls' = << [t |-> ptyMap[id].ptyTerm, method |-> "destroy", arg |-> <<>>] >>
          /\ term' = Destroy(term, ptyMap[id].ptyTerm)
          /\ ptyMap' = MapDelete(ptyMap, id)
  /\ UNCHANGED <<ptyCounter, windows, sent, config, startup, tipViewer>>

\* handleAsyncIpc, case PTY_RESIZE
handlePtyResize(id, size) ==
  /\ lastOp' = Op("resize", 0, id, 0)
  /\ raised' = FALSE
  /\ IF ~Has(id)
     THEN /\ logged' = 1
          /\ calls' = <<>>
     ELSE /\ logged' = 0
          /\ calls' = << [t |-> ptyMap[id].ptyTerm, method |-> "resize", arg |-> size] >>
  /\ reply' = NoReply
  /\ UNCHANGED <<ptyCounter, ptyMap, term, windows, sent, config, startup, tipViewer>>

\* ---------------------------------------------------------------- close
\* variant: an explicit close also sends PTY_CLOSE to the session's window
handlePtyClose_Notify(id) ==
  /\ lastOp' = Op("close", 0, id, 0)
  /\ raised' = FALSE
  /\ IF ~Has(id)
     THEN /\ logged' = 1
          /\ calls' = <<>>
          /\ UNCHANGED <<ptyMap, term, sent>>
     ELSE LET t == ptyMap[id].ptyTerm IN
          /\ logged' = 0
          /\ calls' = << [t |-> t, method |-> "destroy", arg |-> <<>>] >>
          /\ term' = [Destroy(term, t) EXCEPT ![t].paths = @ \cup {"close"}]
          /\ ptyMap' = MapDelete(ptyMap, id)
          /\ sent' = Send(term[t].sender, PtyCloseMsg(id))
  /\ reply' = NoReply
  /\ UNCHANGED <<ptyCounter, windows, config, startup, tipViewer>>

\* handleAsyncIpc, case PTY_CLOSE
handlePtyClose(id) ==
  /\ lastOp' = Op("close", 0, id, 0)
  /\ raised' = FALSE
  /\ IF ~Has(id)
     THEN /\ logged' = 1
          /\ calls' = <<>>
          /\ UNCHANGED <<ptyMap, term>>
     ELSE LET t == ptyMap[id].ptyTerm IN
          /\ logged' = 0
          /\ calls' = << [t |-> t, method |-> "destroy", arg |-> <<>>] >>
          /\ term' = [Destroy(term, t) EXCEPT ![t].paths = @ \cup {"close"}]
          /\ ptyMap' = MapDelete(ptyMap, id)
  /\ reply' = NoReply
  /\ UNCHANGED <<ptyCounter, windows, sent, config, startup, tipViewer>>

\* ---------------------------------------------------------------- config, themes
\* variant: the clone is missing, fullConfig is the live object
getFullConfig_Alias(cfg) ==
  LET full == [cfg EXCEPT !.themePath = <<THEMES_DIRECTORY, cfg.theme>>]
  IN [config |-> full, fullConfig |-> full]

\* getFullConfig on the live object cfg: the live object when it returns, and
\* the object it returns.  themePath is written into the clone only.
getFullConfig(cfg) ==
  LET fullConfig == cfg
  IN [config |-> cfg,
      fullConfig |-> [fullConfig EXCEPT !.themePath = <<THEMES_DIRECTORY, cfg.theme>>]]

\* themes.toArray(): the values, without their keys
getThemes(th) == [i \in DOMAIN th.entries |-> th.entries[i].theme]

\* handleAsyncIpc, case CONFIG_REQUEST, with the send of the reply
handleConfigRequest(w) ==
  /\ lastOp' = Op("configRequest", w, 0, 0)
  /\ logged' = 0
  /\ raised' = FALSE
  /\ calls' = <<>>
  /\ config' = getFullConfig(config).config
  /\ reply' = Reply(w, Msg("CONFIG", 0, << getFullConfig(config).fullConfig >>))
  /\ UNCHANGED <<ptyCounter, ptyMap, term, windows, sent, startup, tipViewer>>

\* variant: the reply is built but never returned
handleThemesRequest_NoReply(w) ==
  /\ lastOp' = Op("themesRequest", w, 0, 0)
  /\ logged' = 0
  /\ raised' = FALSE
  /\ calls' = <<>>
  /\ reply' = NoReply
  /\ UNCHANGED <<ptyCounter, ptyMap, term, windows, sent, config, startup, tipViewer>>

\* handleAsyncIpc, case THEMES_REQUEST, with the send of the reply
handleThemesRequest(w) ==
  /\ lastOp' = Op("themesRequest", w, 0, 0)
  /\ logged' = 0
  /\ raised' = FALSE
  /\ calls' = <<>>
  /\ reply' = Reply(w, Msg("THEMES", 0, getThemes(themes)))
  /\ UNCHANGED <<ptyCounter, ptyMap, term, windows, sent, config, startup, tipViewer>>

\* handleAsyncIpc, case FRAME_DATA_REQUEST: one log line, no reply
handleFrameDataRequest ==
  /\ lastOp' = Op("frameDataRequest", 0, 0, 0)
  /\ logged' = 0
  /\ raised' = FALSE
  /\ calls' = <<>>
  /\ reply' = NoReply
  /\ UNCHANGED <<ptyCounter, ptyMap, term, windows, sent, config, startup, tipViewer>>

\* variant: the default case rejects the message
handleDefault_Throw ==
  /\ lastOp' = Op("unknown", 0, 0, 0)
  /\ logged' = 0
  /\ raised' = TRUE
  /\ calls' = <<>>
  /\ reply' = NoReply
  /\ UNCHANGED <<ptyCounter, ptyMap, term, windows, sent, config, startup, tipViewer>>

\* handleAsyncIpc, default case: break with reply still null
handleDefault ==
  /\ lastOp' = Op("unknown", 0, 0, 0)
  /\ logged' = 0
  /\ raised' = FALSE
  /\ calls' = <<>>
  /\ reply' = NoReply
  /\ UNCHANGED <<ptyCounter, ptyMap, term, windows, sent, config, startup, tipViewer>>

\* the type tags the switch of handleAsyncIpc has a case for
HandledTypes ==
  {"CONFIG_REQUEST", "FRAME_DATA_REQUEST", "THEMES_REQUEST",
   "PTY_CREATE", "PTY_RESIZE", "PTY_INPUT", "PTY_CLOSE"}

\* the dispatcher registered by startIpc; w is the window of event.sender.
\* The incoming message is logged before the switch.
handleAsyncIpc(w, msg, spawnOk) ==
  /\ ipcLog' = msg
  /\ \/ /\ msg.type = "CONFIG_REQUEST"
        /\ handleConfigRequest(w)
     \/ /\ msg.type = "FRAME_DATA_REQUEST"
        /\ handleFrameDataRequest
     \/ /\ msg.type = "THEMES_REQUEST"
        /\ handleThemesRequest(w)
     \/ /\ msg.type = "PTY_CREATE"
        /\ handlePtyCreate(w, spawnOk)
     \/ /\ msg.type = "PTY_RESIZE"
        /\ handlePtyResize(msg.id, msg.data)
     \/ /\ msg.type = "PTY_INPUT"
        /\ handlePtyInput(msg.id, msg.data)
     \/ /\ msg.type = "PTY_CLOSE"
        /\ handlePtyClose(msg.id)
     \/ /\ msg.type \notin HandledTypes
        /\ handleDefault

PtyCreateRequest == Msg("PTY_CREATE", 0, <<>>)

\* the requests answered to event.sender from the provider
ProviderRequests == { Msg("CONFIG_REQUEST", 0, <<>>), Msg("THEMES_REQUEST", 0, <<>>) }

\* requests without a reply: the unimplemented one, a message without a type
\* tag and a message whose tag only the window side handles
SilentRequests ==
  { Msg("FRAME_DATA_REQUEST", 0, <<>>), Msg("undefined", 0, <<>>), Msg("PTY_OUTPUT", 1, <<13>>) }

\* the requests that name a session; their handlers do not use event.sender
SessionRequestsFor(ids) ==
  { Msg("PTY_RESIZE", i, s) : i \in ids, s \in Sizes }
  \cup { Msg("PTY_INPUT", i, d) : i \in ids, d \in InputData }
  \cup { Msg("PTY_CLOSE", i, <<>>) : i \in ids }

SessionRequests == SessionRequestsFor(IdRange)

\* ---------------------------------------------------------------- terminal events
\* The terminal is an external actor: it emits 'data' any number of times and
\* then 'exit' once.  Neither listener is removed by destroy(), and neither
\* consults ptyMap, so the events of a destroyed terminal still run them.
\* The process behind every terminal writes "hi" and then carriage returns.
NextChunk(t) == IF term[t].emitted = <<>> THEN <<104, 105>> ELSE <<13>>

termOnData(t, data) ==
  /\ ~term[t].exited
  /\ TotalData < MaxData
  /\ lastOp' = Op("data", 0, 0, t)
  /\ logged' = 0
  /\ raised' = FALSE
  /\ calls' = <<>>
  /\ term' = [term EXCEPT ![t].emitted = Append(@, data)]
  /\ sent' = Send(term[t].sender, PtyOutput(term[t].ptyId, data))
  /\ ipcLog' = NoMsg
  /\ reply' = NoReply
  /\ UNCHANGED <<ptyCounter, ptyMap, windows, config, startup, tipViewer>>

\* variant: the exit listener forgets ptyMap.delete
termOnExit_KeepEntry(t) ==
  /\ ~term[t].exited
  /\ lastOp' = Op("exit", 0, 0, t)
  /\ logged' = 0
  /\ raised' = FALSE
  /\ calls' = << [t |-> t, method |-> "destroy", arg |-> <<>>] >>
  /\ sent' = Send(term[t].sender, PtyCloseMsg(term[t].ptyId))
  /\ term' = [Destroy(term, t) EXCEPT ![t].exited = TRUE, ![t].paths = @ \cup {"exit"}]
  /\ ipcLog' = NoMsg
  /\ reply' = NoReply
  /\ UNCHANGED <<ptyCounter, ptyMap, windows, config, startup, tipViewer>>

\* the 'exit' listener, main.ts:279-286
termOnExit(t) ==
  /\ ~term[t].exited
  /\ lastOp' = Op("exit", 0, 0, t)
  /\ logged' = 0
  /\ raised' = FALSE
  /\ calls' = << [t |-> t, method |-> "destroy", arg |-> <<>>] >>
  /\ sent' = Send(term[t].sender, PtyCloseMsg(term[t].ptyId))
  /\ term' = [Destroy(term, t) EXCEPT ![t].exited = TRUE, ![t].paths = @ \cup {"exit"}]
  /\ ptyMap' = MapDelete(ptyMap, term[t].ptyId)
  /\ ipcLog' = NoMsg
  /\ reply' = NoReply
  /\ UNCHANGED <<ptyCounter, windows, config, startup, tipViewer>>

\* ---------------------------------------------------------------- window cleanup
\* variant: the window test is missing
OwnedBy_Any(tup, w) == TRUE

\* the test of main.ts:340
OwnedBy(tup, w) == tup.windowId = w

\* the keys of ptyMap whose entry cleanUpPtyWindow destroys and deletes
CleanUpKeys(w) == { k \in DOMAIN ptyMap : OwnedBy(ptyMap[k], w) }

cleanUpPtyWindow(w) ==
  LET ks == CleanUpKeys(w)
      ts == { ptyMap[k].ptyTerm : k \in ks }
  IN /\ term' = [t \in DOMAIN term |->
                   IF t \in ts
                   THEN [term[t] EXCEPT !.destroyed = @ + 1, !.paths = @ \cup {"window"}]
                   ELSE term[t]]
     /\ ptyMap' = [k \in DOMAIN ptyMap \ ks |-> ptyMap[k]]
     /\ calls' = IF ks = {} THEN <<>>
                 ELSE LET RECURSIVE InKeyOrder(_)
                          InKeyOrder(S) ==
                            IF S = {} THEN <<>>
                            ELSE LET k == CHOOSE x \in S : \A y \in S : x <= y
                                 IN << [t |-> ptyMap[k].ptyTerm, method |-> "destroy", arg |-> <<>>] >>
                                    \o InKeyOrder(S \ {k})
                      IN InKeyOrder(ks)

\* the 'closed' listener of the window, main.ts:73-76
windowClosed(w) ==
  /\ w \in windows
  /\ lastOp' = Op("windowClosed", w, 0, 0)
  /\ logged' = 0
  /\ raised' = FALSE
  /\ cleanUpPtyWindow(w)
  /\ windows' = windows \ {w}
  /\ ipcLog' = NoMsg
  /\ reply' = NoReply
  /\ UNCHANGED <<ptyCounter, sent, config, startup, tipViewer>>

\* ---------------------------------------------------------------- specification
Next ==
  \/ \E w \in windows, spawnOk \in BOOLEAN :
       Len(term) < MaxCreate /\ handleAsyncIpc(w, PtyCreateRequest, spawnOk)
  \/ \E msg \in SessionRequests :
       windows # {} /\ handleAsyncIpc(CHOOSE w \in windows : TRUE, msg, TRUE)
  \/ \E t \in DOMAIN term : termOnData(t, NextChunk(t))
  \/ \E t \in DOMAIN term : termOnExit(t)
  \/ \E w \in Windows : windowClosed(w)

Spec == Init /\ [][Next]_vars

\* ---------------------------------------------------------------- dispatcher
\* The dispatcher with every kind of incoming message, one session more than
\* Spec and terminals that exit without writing anything.
MaxIpcCreate == MaxCreate + 1

NextIpc ==
  \/ \E w \in windows, spawnOk \in BOOLEAN :
       Len(term) < MaxIpcCreate /\ handleAsyncIpc(w, PtyCreateRequest, spawnOk)
  \/ \E msg \in SessionRequestsFor(1..MaxIpcCreate) \cup SilentRequests :
       windows # {} /\ handleAsyncIpc(CHOOSE w \in windows : TRUE, msg, TRUE)
  \/ \E w \in windows, msg \in ProviderRequests : handleAsyncIpc(w, msg, TRUE)
  \/ \E t \in DOMAIN term : termOnExit(t)
  \/ \E w \in Windows : windowClosed(w)

SpecIpc == Init /\ [][NextIpc]_vars

\* ---------------------------------------------------------------- startup
\* before main() has run, on any configuration file and themes directory
InitStartup ==
  /\ ptyCounter = 0
  /\ ptyMap = <<>>
  /\ term = <<>>
  /\ windows = Windows
  /\ sent = [w \in Windows |-> <<>>]
  /\ lastOp = Op("init", 0, 0, 0)
  /\ logged = 0
  /\ raised = FALSE
  /\ calls = <<>>
  /\ fs \in [configFile : ConfigFiles, themesdir : ThemeDirs]
  /\ pc = "start"
  /\ config = readConfigurationFile([exists |-> FALSE])
  /\ themes = scanThemes([exists |-> FALSE])
  /\ ipcLog = NoMsg
  /\ reply = NoReply
  /\ TipViewerConstructed(loadTipFile(<<Article(1)>>), 0)

\* main(), main.ts:40-78, up to the registration of the listeners
main ==
  /\ pc = "start"
  /\ pc' = Startup(fs).pc
  /\ config' = Startup(fs).config
  /\ themes' = Startup(fs).themes
  /\ lastOp' = Op("main", 0, 0, 0)
  /\ logged' = 0
  /\ raised' = (Startup(fs).pc = "crashed")
  /\ calls' = <<>>
  /\ ipcLog' = NoMsg
  /\ reply' = NoReply
  /\ UNCHANGED <<ptyCounter, ptyMap, term, windows, sent, fs, tipViewer>>

NextStartup ==
  \/ main
  \/ \E w \in windows, msg \in ProviderRequests : pc = "ready" /\ handleAsyncIpc(w, msg, TRUE)

SpecStartup == InitStartup /\ [][NextStartup]_vars

\* ---------------------------------------------------------------- tip viewer
_getTipCount == Len(tipData)

_getTipHTML(tipNumber) ==
  IF tipNumber + 1 \in DOMAIN tipData THEN tipData[tipNumber + 1] ELSE Undefined

\* the clicks kept in tipTrail
TrailLen == MaxTips + 2

\* the trail with one more click, the oldest dropped when it is full
Trail(op, from, to) ==
  LET t == Append(tipTrail, [op |-> op, from |-> from, to |-> to])
  IN IF Len(t) > TrailLen THEN Tail(t) ELSE t

\* variant: the tip counter is taken as the index
connectedCallback_NoModulo ==
  /\ ~connected
  /\ connected' = TRUE
  /\ _tipIndex' = tipCounter
  /\ IF shadow
     THEN UNCHANGED <<shadow, content>>
     ELSE shadow' = TRUE /\ content' = _getTipHTML(_tipIndex')
  /\ tipTrail' = <<>>
  /\ lastOp' = Op("connectedCallback", 0, 0, 0)
  /\ UNCHANGED <<tipData, tipCounter, mainProcess>>

\* connectedCallback, part_000:106-158: the index is set on every call; the
\* shadow root, the first tip and the listeners only on the first
connectedCallback ==
  /\ ~connected
  /\ connected' = TRUE
  /\ _tipIndex' = JsRem(tipCounter, _getTipCount)
  /\ IF shadow
     THEN UNCHANGED <<shadow, content>>
     ELSE shadow' = TRUE /\ content' = _getTipHTML(_tipIndex')
  /\ tipTrail' = <<>>
  /\ lastOp' = Op("connectedCallback", 0, 0, 0)
  /\ UNCHANGED <<tipData, tipCounter, mainProcess>>

disconnectedCallback ==
  /\ connected
  /\ connected' = FALSE
  /\ lastOp' = Op("disconnectedCallback", 0, 0, 0)
  /\ UNCHANGED <<tipData, tipCounter, _tipIndex, shadow, content, tipTrail, mainProcess>>

\* the click listener of ID_NEXT_BUTTON, part_000:140-143
nextClick ==
  /\ shadow /\ connected
  /\ _tipIndex' = JsRem(_tipIndex + 1, _getTipCount)
  /\ content' = _getTipHTML(_tipIndex')
  /\ tipTrail' = Trail("next", _tipIndex, _tipIndex')
  /\ lastOp' = Op("nextClick", 0, 0, 0)
  /\ UNCHANGED <<tipData, tipCounter, shadow, connected, mainProcess>>

\* variant: one is subtracted without adding the tip count first
previousClick_Minus ==
  /\ shadow /\ connected
  /\ _tipIndex' = JsRem(_tipIndex - 1, _getTipCount)
  /\ content' = _getTipHTML(_tipIndex')
  /\ tipTrail' = Trail("previous", _tipIndex, _tipIndex')
  /\ lastOp' = Op("previousClick", 0, 0, 0)
  /\ UNCHANGED <<tipData, tipCounter, shadow, connected, mainProcess>>

\* the click listener of ID_PREVIOUS_BUTTON, part_000:146-149
previousClick ==
  /\ shadow /\ connected
  /\ _tipIndex' = JsRem(_tipIndex + _getTipCount - 1, _getTipCount)
  /\ content' = _getTipHTML(_tipIndex')
  /\ tipTrail' = Trail("previous", _tipIndex, _tipIndex')
  /\ lastOp' = Op("previousClick", 0, 0, 0)
  /\ UNCHANGED <<tipData, tipCounter, shadow, connected, mainProcess>>

\* _keyBindingChanged, part_000:293-295: the current tip is rendered again
_keyBindingChanged ==
  /\ shadow
  /\ content' = _getTipHTML(_tipIndex)
  /\ lastOp' = Op("keyBindingChanged", 0, 0, 0)
  /\ UNCHANGED <<tipData, tipCounter, _tipIndex, shadow, connected, tipTrail, mainProcess>>

\* a constructed viewer on any tips.html and any tip counter
InitTips ==
  /\ ptyCounter = 0
  /\ ptyMap = <<>>
  /\ term = <<>>
  /\ windows = Windows
  /\ sent = [w \in Windows |-> <<>>]
  /\ lastOp = Op("init", 0, 0, 0)
  /\ logged = 0
  /\ raised = FALSE
  /\ calls = <<>>
  /\ fs = InstalledFs
  /\ pc = Startup(fs).pc
  /\ config = Startup(fs).config
  /\ themes = Startup(fs).themes
  /\ ipcLog = NoMsg
  /\ reply = NoReply
  /\ \E file \in TipFiles, counter \in TipCounters :
       TipViewerConstructed(loadTipFile(file), counter)

NextTips ==
  \/ connectedCallback
  \/ disconnectedCallback
  \/ nextClick
  \/ previousClick
  \/ _keyBindingChanged

SpecTips == InitTips /\ [][NextTips]_vars

TypeOK ==
  /\ ptyCounter \in 0..MaxCreate
  /\ DOMAIN ptyMap \subseteq 1..MaxCreate
  /\ \A k \in DOMAIN ptyMap : ptyMap[k].windowId \in Windows /\ ptyMap[k].ptyTerm \in DOMAIN term
  /\ Len(term) <= MaxCreate
  /\ windows \subseteq Windows
  /\ logged \in 0..1
  /\ raised \in BOOLEAN

\* ---------------------------------------------------------------- derived views
\* terminal t is the one registered under the id its listeners captured
Registered(t) == Has(term[t].ptyId) /\ ptyMap[term[t].ptyId].ptyTerm = t

\* the data of the PTY_OUTPUT messages tagged id on window w's channel
OutputsOf(w, id) ==
  LET q == SelectSeq(Stream(w, id), LAMBDA m : m.type = "PTY_OUTPUT")
  IN [i \in DOMAIN q |-> q[i].data]

\* the number of PTY_CLOSE messages tagged id, over all channels
CloseCount(id) ==
  LET RECURSIVE Over(_)
      Over(W) == IF W = {} THEN 0
                 ELSE LET w == CHOOSE x \in W : TRUE
                      IN Len(SelectSeq(Stream(w, id), LAMBDA m : m.type = "PTY_CLOSE"))
                         + Over(W \ {w})
  IN Over(Windows)

\* the ids of the PTY_CREATED replies on window w's channel
CreatedIds(w) ==
  { i \in DOMAIN sent[w] : \E k \in DOMAIN sent[w][i] : sent[w][i][k].type = "PTY_CREATED" }

\* the messages the step passes to window w's channel
NewMessages(w) ==
  UNION { { sent'[w][i][k] : k \in (Len(Stream(w, i)) + 1)..Len(sent'[w][i]) } : i \in DOMAIN sent'[w] }

\* ---------------------------------------------------------------- properties

\* C1: the ids captured by successive successful creates are strictly
\* increasing in call order, hence pairwise distinct, whatever was removed in
\* between, and each is returned in exactly one PTY_CREATED reply.
C1_IdsStrictlyIncreasing ==
  /\ \A s, t \in DOMAIN term : s < t => term[s].ptyId < term[t].ptyId
  /\ \A t \in DOMAIN term :
       /\ term[t].ptyId \in CreatedIds(term[t].sender)
       /\ Len(SelectSeq(Stream(term[t].sender, term[t].ptyId),
                        LAMBDA m : m.type = "PTY_CREATED")) = 1

\* a create that succeeded after the first session had been removed
C1_Witness ==
  /\ lastOp.op = "create"
  /\ Len(term) = 2
  /\ ~Has(term[1].ptyId)
  /\ Has(term[2].ptyId)

\* C2: a window-closed event for window w removes exactly the sessions owned
\* by w; every other session stays registered with the same owner and the
\* same terminal, which is left undestroyed.
C2_WindowCleanupExact ==
  [][lastOp'.op = "windowClosed" =>
       LET w == lastOp'.window
       IN /\ DOMAIN ptyMap' = { k \in DOMAIN ptyMap : ptyMap[k].windowId # w }
          /\ \A k \in DOMAIN ptyMap' :
               /\ ptyMap'[k] = ptyMap[k]
               /\ term'[ptyMap[k].ptyTerm] = term[ptyMap[k].ptyTerm]
               /\ term'[ptyMap[k].ptyTerm].destroyed = 0]_vars

\* a window was closed, one of its sessions was cleaned up, another window's
\* session is still registered
C2_Witness ==
  /\ lastOp.op = "windowClosed"
  /\ \E t \in DOMAIN term : term[t].sender = lastOp.window /\ "window" \in term[t].paths
  /\ \E k \in DOMAIN ptyMap : ptyMap[k].windowId # lastOp.window

\* C3: every Output or Close message a step sends carries the id of a
\* session that is registered when the step starts: no message carries the
\* id of a removed session.
C3_NoMessageAfterRemoval ==
  [][\A w \in Windows : \A m \in NewMessages(w) :
       m.type \in {"PTY_OUTPUT", "PTY_CLOSE"} => m.id \in DOMAIN ptyMap]_vars

\* C4: a terminal is destroyed at most once, exactly once when its session
\* has been removed, and no method of a terminal is called once its session
\* is no longer registered.
C4_ReleasedExactlyOnce ==
  /\ [](\A t \in DOMAIN term :
          /\ term[t].destroyed <= 1
          /\ ~Registered(t) => term[t].destroyed = 1)
  /\ [][\A i \in DOMAIN calls' : Registered(calls'[i].t)]_vars

\* C5: the exit event of a registered session's terminal sends exactly one
\* PTY_CLOSE with the session's id to the session's channel, destroys the
\* terminal and deletes the entry; no id ever has more than one PTY_CLOSE.
C5_ExitBridged ==
  /\ [](\A t \in DOMAIN term : CloseCount(term[t].ptyId) <= 1)
  /\ [][(lastOp'.op = "exit" /\ Registered(lastOp'.t)) =>
          LET t == lastOp'.t
          IN /\ sent' = Send(term[t].sender, PtyCloseMsg(term[t].ptyId))
             /\ term'[t].destroyed = term[t].destroyed + 1
             /\ term[t].ptyId \notin DOMAIN ptyMap']_vars

\* the terminal of a session that was still registered has exited
C5_Witness ==
  /\ lastOp.op = "exit"
  /\ term[lastOp.t].paths = {"exit"}
  /\ CloseCount(term[lastOp.t].ptyId) = 1
  /\ ~Has(term[lastOp.t].ptyId)

\* C6: at most one terminal path (explicit close, window cleanup or process
\* exit) tears a session down, and exactly one has once it is removed.
C6_OneTerminalPath ==
  \A t \in DOMAIN term :
    /\ Cardinality(term[t].paths) <= 1
    /\ ~Registered(t) => Cardinality(term[t].paths) = 1

\* C7: a close never throws, sends nothing and leaves the counter alone; on a
\* registered id it removes the entry without logging; on an absent id it
\* logs one advisory and changes neither the registry nor any terminal.
C7_CloseIdempotent ==
  [][lastOp'.op = "close" =>
       /\ raised' = FALSE
       /\ sent' = sent
       /\ ptyCounter' = ptyCounter
       /\ IF Has(lastOp'.id)
          THEN /\ lastOp'.id \notin DOMAIN ptyMap'
               /\ logged' = 0
          ELSE /\ logged' = 1
               /\ calls' = <<>>
               /\ UNCHANGED <<ptyMap, term>>]_vars

\* the second close of an id that an explicit close had removed
C7_Witness ==
  /\ lastOp.op = "close"
  /\ logged = 1
  /\ \E t \in DOMAIN term : term[t].ptyId = lastOp.id /\ "close" \in term[t].paths

\* C8: input and resize on an absent id do not throw, log one advisory, send
\* nothing, call no terminal method and leave registry, counter and
\* terminals as they were.
C8_AbsentInputResize ==
  [][(lastOp'.op \in {"input", "resize"} /\ ~Has(lastOp'.id)) =>
       /\ raised' = FALSE
       /\ logged' = 1
       /\ calls' = <<>>
       /\ UNCHANGED <<ptyCounter, ptyMap, term, sent>>]_vars

\* a resize for a removed id while another session is registered
C8_Witness ==
  /\ lastOp.op = "resize"
  /\ logged = 1
  /\ \E t \in DOMAIN term : term[t].ptyId = lastOp.id
  /\ ptyMap # <<>>

\* C9: the PTY_OUTPUT messages tagged with a terminal's id, on its sender's
\* channel, carry exactly the chunks the terminal emitted, in emission
\* order; no other channel carries an output for that id.
C9_OutputInOrder ==
  \A t \in DOMAIN term : \A w \in Windows :
    OutputsOf(w, term[t].ptyId) =
      IF w = term[t].sender THEN term[t].emitted ELSE <<>>

\* two different chunks of one session were delivered, the second after
\* another session had used the same channel
C9_Witness ==
  /\ lastOp.op = "data"
  /\ Len(term[lastOp.t].emitted) = 2
  /\ term[lastOp.t].emitted[1] # term[lastOp.t].emitted[2]
  /\ \E u \in DOMAIN term :
       /\ u # lastOp.t
       /\ term[u].sender = term[lastOp.t].sender
       /\ term[u].exited

\* C10: a create whose spawn throws surfaces the throw to the caller in the
\* same step, sends nothing and registers nothing.
C10_SpawnFailure ==
  [][lastOp'.op = "createSpawnFailed" =>
       /\ raised' = TRUE
       /\ sent' = sent
       /\ ptyMap' = ptyMap
       /\ term' = term]_vars

\* a spawn failed while a session was registered
C10_Witness ==
  /\ lastOp.op = "createSpawnFailed"
  /\ raised
  /\ ptyMap # <<>>

\* C11: a message whose type tag has no case in the dispatcher is logged as
\* incoming and dropped: no reply, no throw, no terminal call, nothing sent,
\* registry, counter and terminals unchanged.
C11_UnknownDropped ==
  [][lastOp'.op = "unknown" =>
       /\ ipcLog'.type \notin HandledTypes \cup {NoMsg.type}
       /\ reply'.to = 0
       /\ raised' = FALSE
       /\ calls' = <<>>
       /\ UNCHANGED <<ptyCounter, ptyMap, term, sent>>]_vars

\* a message without a type tag arrived while a session was registered
C11_Witness ==
  /\ lastOp.op = "unknown"
  /\ ipcLog.type = "undefined"
  /\ ptyMap # <<>>

\* C12: every PTY_OUTPUT and PTY_CLOSE of a session is on the channel that
\* received the session's PTY_CREATED reply, and the registry records that
\* window as the session's owner.
C12_MessagesToOwner ==
  /\ \A w \in Windows : \A id \in DOMAIN sent[w] :
       (\E k \in DOMAIN sent[w][id] : sent[w][id][k].type \in {"PTY_OUTPUT", "PTY_CLOSE"})
         => id \in CreatedIds(w)
  /\ \A id \in DOMAIN ptyMap : id \in CreatedIds(ptyMap[id].windowId)
  /\ \A w1, w2 \in Windows : \A id \in DOMAIN sent[w1] \cap DOMAIN sent[w2] :
       sent[w1][id] # <<>> /\ sent[w2][id] # <<>> => w1 = w2

\* sessions of both windows have produced output
C12_Witness ==
  \E t, u \in DOMAIN term :
    /\ term[t].sender = 1 /\ term[u].sender = 2
    /\ OutputsOf(1, term[t].ptyId) # <<>>
    /\ OutputsOf(2, term[u].ptyId) # <<>>

\* C13: an entry that stays in the registry keeps its owner and its
\* terminal, every owner is a window, and input and resize leave the
\* registry as it was.
C13_OwnerFixed ==
  [][/\ \A id \in DOMAIN ptyMap \cap DOMAIN ptyMap' : ptyMap'[id] = ptyMap[id]
     /\ \A id \in DOMAIN ptyMap' : ptyMap'[id].windowId \in Windows
     /\ lastOp'.op \in {"input", "resize"} => ptyMap' = ptyMap]_vars

\* a resize reached the terminal of a registered session
C13_Witness ==
  /\ lastOp.op = "resize"
  /\ Has(lastOp.id)
  /\ Len(calls) = 1
  /\ calls[1].method = "resize"

\* C14: an id that has been assigned and is not in the registry is not in
\* the registry after any step.
C14_RemovedAbsorbing ==
  [][\A t \in DOMAIN term :
       term[t].ptyId \notin DOMAIN ptyMap => term[t].ptyId \notin DOMAIN ptyMap']_vars

\* a session was created after the first one had exited and been removed
C14_Witness ==
  /\ lastOp.op = "create"
  /\ Len(term) = 2
  /\ term[1].exited
  /\ DOMAIN ptyMap = {term[2].ptyId}

\* C15: the k-th successful create captures and replies id k; with ids 1 and
\* 2 created by window 1, id 3 by window 2 and all three registered, the
\* window-closed event of window 1 leaves exactly {3}.
C15_KthCreateReturnsK ==
  /\ [](\A t \in DOMAIN term : term[t].ptyId = t /\ t \in CreatedIds(term[t].sender))
  /\ [][lastOp'.op = "create" => reply'.msg = CreatedPty(Len(term) + 1)]_vars
  /\ [][(/\ lastOp'.op = "windowClosed"
         /\ lastOp'.window = 1
         /\ Len(term) = 3
         /\ term[1].sender = 1 /\ term[2].sender = 1 /\ term[3].sender = 2
         /\ DOMAIN ptyMap = {1, 2, 3})
        => DOMAIN ptyMap' = {3}]_vars

\* scenario B has run: three sessions, window 1 closed, its two cleaned up
C15_Witness ==
  /\ lastOp.op = "windowClosed"
  /\ lastOp.window = 1
  /\ Len(term) = 3
  /\ term[1].sender = 1 /\ term[2].sender = 1 /\ term[3].sender = 2
  /\ term[1].paths = {"window"} /\ term[2].paths = {"window"}
  /\ DOMAIN ptyMap = {3}

\* C16: a config request is answered with one CONFIG and a themes request
\* with one THEMES, to the requesting window; a successful create with one
\* PTY_CREATED carrying the id registered by the step; input, resize and
\* close are not answered; no handler sends anything else.
C16_OneReplyPerRequest ==
  [][/\ lastOp'.op = "configRequest" =>
          reply'.to = lastOp'.window /\ reply'.msg.type = "CONFIG" /\ sent' = sent
     /\ lastOp'.op = "themesRequest" =>
          reply'.to = lastOp'.window /\ reply'.msg.type = "THEMES" /\ sent' = sent
     /\ lastOp'.op = "create" =>
          /\ reply'.to = lastOp'.window
          /\ reply'.msg.type = "PTY_CREATED"
          /\ DOMAIN ptyMap' \ DOMAIN ptyMap = {reply'.msg.id}
          /\ sent' = Send(reply'.to, reply'.msg)
     /\ lastOp'.op \in {"input", "resize", "close"} =>
          reply'.to = 0 /\ sent' = sent]_vars

\* window 2 got the theme list while a session was registered
C16_Witness ==
  /\ lastOp.op = "themesRequest"
  /\ reply.to = 2
  /\ reply.msg.type = "THEMES"
  /\ Len(reply.msg.data) = 1
  /\ ptyMap # <<>>

C18_ScanReturnsValidEntries ==
  LET valid == SelectSeq(fs.themesdir.items,
                         LAMBDA e : /\ e.file.kind = "object"
                                    /\ e.file.nameType = "string"
                                    /\ e.file.name # <<>>)
  IN pc # "start" =>
       /\ themes.defined
       /\ pc = "ready"
       /\ Len(themes.entries) = Len(valid)
       /\ \A i \in DOMAIN themes.entries :
            /\ themes.entries[i].item = valid[i].item
            /\ themes.entries[i].theme = valid[i].file

\* C19: on every channel the first message that carries a session id is the
\* PTY_CREATED reply of that session.
C19_CreatedFirst ==
  \A w \in Windows : \A id \in DOMAIN sent[w] :
    sent[w][id] # <<>> => sent[w][id][1].type = "PTY_CREATED"

\* a session's channel holds its reply, an output and its close, in that order
C19_Witness ==
  \E w \in Windows : \E id \in DOMAIN sent[w] :
    /\ Len(sent[w][id]) = 3
    /\ sent[w][id][2].type = "PTY_OUTPUT"
    /\ sent[w][id][3].type = "PTY_CLOSE"

\* C20: the counter equals the number of successful creates; a create whose
\* spawn throws leaves counter and registry as they were, and a successful
\* create captures the number of earlier successes plus one.
C20_FailedCreateConsumesNoId ==
  /\ [](ptyCounter = Len(term))
  /\ [][lastOp'.op = "createSpawnFailed" =>
          ptyCounter' = ptyCounter /\ ptyMap' = ptyMap]_vars
  /\ [][lastOp'.op = "create" => term'[Len(term')].ptyId = Len(term) + 1]_vars

\* a spawn failed after one session had been created
C20_Witness ==
  /\ lastOp.op = "createSpawnFailed"
  /\ ptyCounter = 1
  /\ Len(term) = 1

\* C21: with at least one tip and a non-negative tip counter, once
\* connectedCallback has run the tip index is in 0..N-1 after any clicks, and
\* the tip shown is an entry of the tip list.
C21_TipIndexInRange ==
  (_getTipCount >= 1 /\ tipCounter >= 0 /\ shadow) =>
    /\ _tipIndex \in 0..(_getTipCount - 1)
    /\ \E k \in DOMAIN tipData : content = tipData[k]

\* a counter beyond the tip count was reduced, and clicks in both
\* directions led to the last of several tips
C21_Witness ==
  /\ shadow
  /\ _getTipCount >= 2
  /\ tipCounter > _getTipCount
  /\ \E i, j \in DOMAIN tipTrail : tipTrail[i].op = "next" /\ tipTrail[j].op = "previous"
  /\ _tipIndex = _getTipCount - 1
  /\ content = Article(_getTipCount)

\* C22: over the N tips, a next click followed by a previous click, or a
\* previous click followed by a next click, ends on the index it started
\* from; next from N-1 gives 0, previous from 0 gives N-1; N next clicks in
\* a row end on the index they started from.
C22_NextPreviousInverse ==
  LET n == _getTipCount
      IsIndex(i) == i \in 0..(n - 1)
  IN /\ \A k \in 1..(Len(tipTrail) - 1) :
          (IsIndex(tipTrail[k].from) /\ tipTrail[k].op # tipTrail[k + 1].op)
            => tipTrail[k + 1].to = tipTrail[k].from
     /\ \A k \in DOMAIN tipTrail :
          /\ (tipTrail[k].op = "next" /\ tipTrail[k].from = n - 1) => tipTrail[k].to = 0
          /\ (tipTrail[k].op = "previous" /\ tipTrail[k].from = 0) => tipTrail[k].to = n - 1
     /\ \A k \in 1..(Len(tipTrail) - n + 1) :
          (IsIndex(tipTrail[k].from) /\ \A j \in k..(k + n - 1) : tipTrail[j].op = "next")
            => tipTrail[k + n - 1].to = tipTrail[k].from

\* three tips: previous from 0, then three next clicks, then previous
C22_Witness ==
  /\ _getTipCount = 3
  /\ Len(tipTrail) = 5
  /\ tipTrail[1] = [op |-> "previous", from |-> 0, to |-> 2]
  /\ tipTrail[2].op = "next" /\ tipTrail[3].op = "next" /\ tipTrail[4].op = "next"
  /\ tipTrail[4].to = 2
  /\ tipTrail[5] = [op |-> "previous", from |-> 2, to |-> 1]

====
